---- MODULE Spec2Model ----
(***************************************************************************)
(* Model of the atom rule table (dcp_parser/atomic/atoms.py) and of the    *)
(* atom-function registry (dcp_parser/atomic/atom_loader.py).              *)
(*                                                                         *)
(* The heap is the sequence of Expression objects allocated so far; an     *)
(* Expression is referred to by its index in the heap.  Python values      *)
(* passed to constructors are records [t, v]: t = "e" an Expression with   *)
(* heap index v, t = "n" a number whose value is v/2 (so 0.5 is v = 1),    *)
(* t = "s" the string 'Inf', t = "none" the value None.                    *)
(***************************************************************************)
EXTENDS Integers, Sequences, FiniteSets, TLC

VARIABLES heap, atom_dict, last, builds

vars == <<heap, atom_dict, last, builds>>

(***************************************************************************)
(* Bounds.                                                                 *)
(***************************************************************************)
\* Longest argument list handed to a builder or a constructor.
MaxArgs == 2
\* Number of argument expressions that exist before the call under study.
MaxLeaves == 2
\* Number of successful builder calls in a behaviour of the tree
\* specification.
MaxBuilds == 2

(***************************************************************************)
(* Python values.                                                          *)
(***************************************************************************)
Ref(id) == [t |-> "e", v |-> id]
Num(v2) == [t |-> "n", v |-> v2]
Str_Inf == [t |-> "s", v |-> 0]
None == [t |-> "none", v |-> 0]

\* isinstance(x, Number)
IsNumber(x) == x.t = "n"
\* isinstance(x, Expression)
IsExpression(x) == x.t = "e"

\* Twice the value of a literal, so that halves stay integers.
N(x) == 2 * x

(***************************************************************************)
(* Sign, Curvature, Monotonicity (dcp_parser.expression.sign, .curvature,  *)
(* dcp_parser.atomic.monotonicity).                                        *)
(***************************************************************************)
Signs == {"NEGATIVE", "ZERO", "POSITIVE", "UNKNOWN"}
Curvatures == {"CONSTANT", "AFFINE", "CONVEX", "CONCAVE", "NONCONVEX"}
Monotonicities == {"INCREASING", "DECREASING", "NONMONOTONIC"}

\* Total order on signs: NEGATIVE < ZERO < POSITIVE < UNKNOWN.
SignRank(s) ==
    CASE s = "NEGATIVE" -> 0
      [] s = "ZERO" -> 1
      [] s = "POSITIVE" -> 2
      [] s = "UNKNOWN" -> 3

SignLe(a, b) == SignRank(a) <= SignRank(b)

\* max(arg_signs) / min(arg_signs) under the total order.
SignMax(ss) == CHOOSE s \in {ss[i] : i \in DOMAIN ss} :
                  \A i \in DOMAIN ss : SignLe(ss[i], s)
SignMin(ss) == CHOOSE s \in {ss[i] : i \in DOMAIN ss} :
                  \A i \in DOMAIN ss : SignLe(s, ss[i])

\* One step of Sign.sum.
SignAdd(a, b) ==
    CASE a = "ZERO" -> b
      [] b = "ZERO" -> a
      [] a = "POSITIVE" /\ b = "POSITIVE" -> "POSITIVE"
      [] a = "NEGATIVE" /\ b = "NEGATIVE" -> "NEGATIVE"
      [] OTHER -> "UNKNOWN"

RECURSIVE SignSumFrom(_, _, _)
SignSumFrom(acc, ss, i) ==
    IF i > Len(ss) THEN acc ELSE SignSumFrom(SignAdd(acc, ss[i]), ss, i + 1)

\* Sign.sum(*signs): left fold, ZERO the identity.
Sign_sum(ss) == SignSumFrom("ZERO", ss, 1)

\* The declared partial order of curvatures.
CurvLe(a, b) ==
    \/ a = b
    \/ a = "CONSTANT"
    \/ b = "NONCONVEX"
    \/ a = "AFFINE" /\ b \in {"CONVEX", "CONCAVE"}

\* Join of two curvatures: their least upper bound.
CurvJoin(a, b) ==
    CHOOSE u \in Curvatures :
        /\ CurvLe(a, u) /\ CurvLe(b, u)
        /\ \A w \in Curvatures : (CurvLe(a, w) /\ CurvLe(b, w)) => CurvLe(u, w)

RECURSIVE CurvSumFrom(_, _, _)
CurvSumFrom(acc, cs, i) ==
    IF i > Len(cs) THEN acc ELSE CurvSumFrom(CurvJoin(acc, cs[i]), cs, i + 1)

\* Curvature.sum(curvatures): fold of the join, CONSTANT the identity.
Curvature_sum(cs) == CurvSumFrom("CONSTANT", cs, 1)

\* Monotonicity.dcp_curvature(func_curvature, arg_curvature): the
\* contribution of one argument under the composition rule.
Monotonicity_dcp_curvature(m, kf, ki) ==
    CASE kf \in {"CONSTANT", "AFFINE"} -> ki
      [] kf = "NONCONVEX" -> "NONCONVEX"
      [] kf = "CONVEX" ->
            IF \/ m = "INCREASING" /\ CurvLe(ki, "CONVEX")
               \/ m = "DECREASING" /\ CurvLe(ki, "CONCAVE")
            THEN "CONVEX"
            ELSE IF ki \in {"AFFINE", "CONSTANT"} THEN "AFFINE" ELSE "NONCONVEX"
      [] kf = "CONCAVE" ->
            IF \/ m = "INCREASING" /\ CurvLe(ki, "CONCAVE")
               \/ m = "DECREASING" /\ CurvLe(ki, "CONVEX")
            THEN "CONCAVE"
            ELSE IF ki \in {"AFFINE", "CONSTANT"} THEN "AFFINE" ELSE "NONCONVEX"

\* Atom.ABS_SIGN_TO_MONOTONICITY
ABS_SIGN_TO_MONOTONICITY(s) ==
    CASE s = "POSITIVE" -> "INCREASING"
      [] s = "ZERO" -> "INCREASING"
      [] s = "NEGATIVE" -> "DECREASING"
      [] s = "UNKNOWN" -> "NONMONOTONIC"

(***************************************************************************)
(* The class table of atoms.py: every class statement, in source order,    *)
(* with its lower-cased name, its direct bases and the methods its body    *)
(* defines.                                                                *)
(***************************************************************************)
Range(s) == {s[i] : i \in DOMAIN s}

Cls(c, l, b, d) == [cls |-> c, lower |-> l, bases |-> b, defines |-> d]

Rules == {"sign", "signed_curvature", "monotonicity"}

ClassTable == <<
    Cls("Log_sum_exp", "log_sum_exp", <<"Atom">>, Rules),
    Cls("Max", "max", <<"Atom">>, Rules),
    Cls("Min", "min", <<"Atom">>, Rules),
    Cls("Log", "log", <<"Atom">>, Rules \cup {"__init__"}),
    Cls("Sum", "sum", <<"Atom">>, Rules),
    Cls("Geo_mean", "geo_mean", <<"Atom">>, Rules \cup {"__init__"}),
    Cls("Sqrt", "sqrt", <<"Geo_mean">>, {"__init__"}),
    Cls("Log_normcdf", "log_normcdf", <<"Atom">>, Rules \cup {"__init__"}),
    Cls("Exp", "exp", <<"Atom">>, Rules \cup {"__init__"}),
    Cls("Norm", "norm", <<"Atom", "Parameterized">>,
        Rules \cup {"__init__", "validate_parameter"}),
    Cls("Norm2", "norm2", <<"Norm">>, {"__init__"}),
    Cls("Norm1", "norm1", <<"Norm">>, {"__init__"}),
    Cls("Norm_inf", "norm_inf", <<"Norm">>, {"__init__"}),
    Cls("Abs", "abs", <<"Norm">>, {"__init__"}),
    Cls("Entr", "entr", <<"Atom">>, Rules \cup {"__init__"}),
    Cls("Huber", "huber", <<"Atom", "Parameterized">>,
        Rules \cup {"__init__", "validate_parameter"}),
    Cls("Berhu", "berhu", <<"Huber", "Parameterized">>, {}),
    Cls("Huber_pos", "huber_pos", <<"Huber", "Parameterized">>, Rules),
    Cls("Huber_circ", "huber_circ", <<"Huber_pos", "Parameterized">>, {"__init__"}),
    Cls("Inv_pos", "inv_pos", <<"Atom">>, Rules \cup {"__init__"}),
    Cls("Kl_div", "kl_div", <<"Atom">>, Rules \cup {"__init__"}),
    Cls("Norm_largest", "norm_largest", <<"Atom", "Parameterized">>,
        Rules \cup {"__init__", "validate_parameter"}),
    Cls("Pos", "pos", <<"Max">>, {"__init__"}),
    Cls("Pow", "pow", <<"Atom", "Parameterized">>,
        Rules \cup {"__init__", "validate_parameter"}),
    Cls("Pow_abs", "pow_abs", <<"Pow", "Parameterized">>,
        {"__init__", "validate_parameter"}),
    Cls("Pow_pos", "pow_pos", <<"Pow", "Parameterized">>,
        {"__init__", "validate_parameter"}),
    Cls("Square_abs", "square_abs", <<"Pow_abs">>, {"__init__"}),
    Cls("Square_pos", "square_pos", <<"Pow_pos">>, {"__init__"}),
    Cls("Rel_entr", "rel_entr", <<"Atom">>, Rules \cup {"__init__"}),
    Cls("Quad_over_lin", "quad_over_lin", <<"Atom">>, Rules \cup {"__init__"}),
    Cls("Square", "square", <<"Quad_over_lin">>, {"__init__"}),
    Cls("Sum_square", "sum_square", <<"Quad_over_lin">>, {"__init__"}),
    Cls("Sum_square_abs", "sum_square_abs", <<"Sum_square">>, {"__init__"}),
    Cls("Sum_square_pos", "sum_square_pos", <<"Sum_square">>, {"__init__"}),
    Cls("Sum_largest", "sum_largest", <<"Atom", "Parameterized">>,
        Rules \cup {"__init__", "validate_parameter"}),
    Cls("Sum_smallest", "sum_smallest", <<"Sum_largest", "Parameterized">>,
        {"signed_curvature", "monotonicity"})
>>

\* Every concrete atom class of atoms.py.
AtomClasses == {ClassTable[i].cls : i \in DOMAIN ClassTable}

\* The class statement of class c in table t.
Find(t, c) == t[CHOOSE i \in DOMAIN t : t[i].cls = c]

Entry(c) == Find(ClassTable, c)

\* cls.__bases__
BasesOf(c) == Entry(c).bases

\* cls.__name__.lower()
Lower(c) == Entry(c).lower

\* The class whose body supplies method m for an instance of class c: the
\* method resolution order follows the first base, Parameterized coming last.
RECURSIVE Owner(_, _)
Owner(c, m) ==
    IF c \in {"Atom", "Parameterized"} THEN c
    ELSE LET e == Entry(c)
         IN IF m \in e.defines THEN c ELSE Owner(e.bases[1], m)

\* The methods an instance looks up through its class, and for each the
\* class whose body supplies it.
MethodNames == Rules \cup {"__init__", "validate_parameter"}

Methods(cls) == [m \in MethodNames |-> Owner(cls, m)]

\* Atom.__subclasses__(): the classes that list Atom among their bases.
Atom_subclasses == {c \in AtomClasses : "Atom" \in Range(BasesOf(c))}

\* The dictionary built from a list of classes: lower-cased class name ->
\* the class whose builder make_atomic_func returns.
DictOf(classes) ==
    [name \in {Lower(c) : c \in classes} |-> CHOOSE c \in classes : Lower(c) = name]

\* generate_atom_dict()
generate_atom_dict == DictOf(Atom_subclasses)

(***************************************************************************)
(* Expression objects (dcp_parser.expression.expression).                  *)
(***************************************************************************)
\* A display name is a sequence of tokens; a number token carries its value.
Tok(k, v) == [k |-> k, v |-> v]

\* settings.MINUS
MINUS == <<Tok("-", 0)>>

\* str(number): a negative number prints as a minus sign and its magnitude.
NumberName(v) == IF v < 0 THEN MINUS \o <<Tok("num", 0 - v)>> ELSE <<Tok("num", v)>>

\* int(name) / float(name): the number a name denotes, if it denotes one.
ParsesAsNumber(name) ==
    \/ Len(name) = 1 /\ name[1].k = "num"
    \/ Len(name) = 2 /\ name[1] = MINUS[1] /\ name[2].k = "num"

ParseNumber(name) == IF Len(name) = 1 THEN name[1].v ELSE 0 - name[2].v

SignOfNumber(v) == IF v > 0 THEN "POSITIVE" ELSE IF v < 0 THEN "NEGATIVE" ELSE "ZERO"

Node(curv, sgn, name, subs, errs, isconst) ==
    [curvature |-> curv, sign |-> sgn, name |-> name, subexpressions |-> subs,
     parent |-> 0, errors |-> errs, isConstant |-> isconst]

\* Constant(value)
Constant(v) == Node("CONSTANT", SignOfNumber(v), NumberName(v), <<>>, <<>>, TRUE)

\* Expression(curvature, sign, name, subexpressions, errors): allocates the
\* node, with no parent, and makes it the parent of each subexpression.
Expression_init(h, curv, sgn, name, subs, errs) ==
    LET id == Len(h) + 1
        h1 == [i \in DOMAIN h |->
                  IF i \in Range(subs) THEN [h[i] EXCEPT !.parent = id] ELSE h[i]]
    IN Append(h1, Node(curv, sgn, name, subs, errs, FALSE))

\* map(Expression.type_check, values): an Expression is kept, a number
\* becomes a newly allocated Constant.  Yields the heap and the resulting
\* expressions' indices.
TypeCheckable(vals) == \A i \in DOMAIN vals : vals[i].t \in {"e", "n"}

NumbersBefore(vals, i) == Cardinality({j \in 1..i : vals[j].t = "n"})

Expression_type_check(h, vals) ==
    LET nums == SelectSeq(vals, IsNumber)
    IN [heap |-> h \o [j \in 1..Len(nums) |-> Constant(nums[j].v)],
        ids |-> [i \in DOMAIN vals |->
                    IF vals[i].t = "e" THEN vals[i].v
                    ELSE Len(h) + NumbersBefore(vals, i)]]

(***************************************************************************)
(* Exceptions.                                                             *)
(***************************************************************************)
\* TypeError raised by Atom.__init__ on an empty argument list.
ErrNoArguments == "TypeError: No arguments given"
\* TypeError raised by Python when a call does not fit __init__'s signature.
ErrSignature == "TypeError: __init__() takes N arguments"
\* Exception the builder means to raise on an empty argument list.
ErrRequiresArgument == "Exception: requires at least one argument"
\* What `raise Exception(... % func_name)` raises while func_name is unbound.
ErrUnboundLocal == "UnboundLocalError: func_name referenced before assignment"
\* Exception raised by validate_parameter.
ErrParameter == "Exception: Invalid value for parameter"
\* Exception raised by Atom.dcp_curvature.
ErrContract == "Exception: number of args and monotonicities differ"
\* ValueError raised by float(name) in constant_to_number.
ErrValue == "ValueError: could not convert string to float"
\* Expression.type_check given neither an Expression nor a number.
ErrTypeCheck == "Exception: type_check"

ArityErrors == {ErrNoArguments, ErrSignature, ErrRequiresArgument}
ParameterErrors == {ErrParameter}
ContractErrors == {ErrContract}

(***************************************************************************)
(* Atom instances and the interpreter context.                             *)
(***************************************************************************)
\* A freshly allocated instance of class cls, before __init__ has run;
\* methods is the method table of its class.
NewSelf(cls) ==
    [cls |-> cls, args |-> <<>>, original_args |-> <<>>, parameter |-> None,
     methods |-> Methods(cls)]

\* The placeholder for "no instance was allocated".
NoInstance ==
    [cls |-> "Atom", args |-> <<>>, original_args |-> <<>>, parameter |-> None,
     methods |-> [m \in {} |-> "Atom"]]

\* The context threaded through a call: the heap, the pending exception
\* ("" when none), the instance under construction, the value returned by
\* the last helper (ret: a list of values, rid: an Expression), and whether
\* any rule method (sign, signed_curvature, monotonicity) has run.
Ctx(h) == [heap |-> h, err |-> "", self |-> NoInstance, ret |-> <<>>,
           rid |-> 0, ruled |-> FALSE]

Raise(c, e) == IF c.err = "" THEN [c EXCEPT !.err = e] ELSE c

\* Atom.argument_signs / Atom.argument_curvatures
Atom_argument_signs(h, self) == [i \in DOMAIN self.args |-> h[self.args[i]].sign]
Atom_argument_curvatures(h, self) ==
    [i \in DOMAIN self.args |-> h[self.args[i]].curvature]

\* Atom.arguments
Atom_arguments(self) == self.original_args

\* Atom.name
Atom_name(self) == Lower(self.cls)

\* Atom.short_name: "%s(..., %s)" % (name, parameter) when Parameterized is
\* one of the bases the class statement lists, the name otherwise.
Atom_short_name(self) ==
    IF \E i \in DOMAIN BasesOf(self.cls) : BasesOf(self.cls)[i] = "Parameterized"
    THEN <<Tok(Atom_name(self), 0), Tok("(...,", 0)>>
            \o (CASE IsNumber(self.parameter) -> NumberName(self.parameter.v)
                  [] self.parameter = Str_Inf -> <<Tok("Inf", 0)>>
                  [] OTHER -> <<Tok("None", 0)>>)
            \o <<Tok(")", 0)>>
    ELSE <<Tok(Atom_name(self), 0)>>

\* [m] * len(self.args)
Repeat(m, self) == [i \in DOMAIN self.args |-> m]

Has(ss, s) == \E i \in DOMAIN ss : ss[i] = s

(***************************************************************************)
(* The rule methods of each class: sign(), signed_curvature() and          *)
(* monotonicity(), as functions of the heap and the instance.  A method    *)
(* that returns a fixed value is written in the dispatching operator.      *)
(***************************************************************************)
Max_sign(h, self) ==
    LET arg_signs == Atom_argument_signs(h, self)
        sgn == SignMax(arg_signs)
    IN IF sgn = "UNKNOWN" /\ Has(arg_signs, "ZERO") THEN "POSITIVE" ELSE sgn

Min_sign(h, self) ==
    LET arg_signs == Atom_argument_signs(h, self)
        sgn == SignMin(arg_signs)
    IN IF sgn = "ZERO" /\ Has(arg_signs, "UNKNOWN") THEN "NEGATIVE" ELSE sgn

\* Log.signed_curvature without its test of the argument's sign.
Log_signed_curvature_NoDomain(h, self) == "CONCAVE"

Log_signed_curvature(h, self) ==
    IF h[self.args[1]].sign \in {"NEGATIVE", "ZERO"} THEN "NONCONVEX" ELSE "CONCAVE"

Sum_sign(h, self) == Sign_sum(Atom_argument_signs(h, self))

Sum_signed_curvature(h, self) == "AFFINE"

Geo_mean_sign(h, self) ==
    LET ss == Atom_argument_signs(h, self)
    IN IF Has(ss, "NEGATIVE") THEN "UNKNOWN"
       ELSE IF \E i \in DOMAIN ss : ss[i] # "ZERO" THEN "POSITIVE" ELSE "ZERO"

Geo_mean_signed_curvature(h, self) ==
    IF Has(Atom_argument_signs(h, self), "NEGATIVE") THEN "NONCONVEX" ELSE "CONCAVE"

Exp_signed_curvature(h, self) == "CONVEX"

\* Exp.monotonicity declaring the wrong direction.
Exp_monotonicity_Decreasing(h, self) == <<"DECREASING">>

Exp_monotonicity(h, self) == <<"INCREASING">>

Norm_sign(h, self) ==
    LET ss == Atom_argument_signs(h, self)
    IN IF \E i \in DOMAIN ss : ss[i] # "ZERO" THEN "POSITIVE" ELSE "ZERO"

Norm_signed_curvature(h, self) == "CONVEX"

\* Norm.monotonicity and Norm_largest.monotonicity
Norm_monotonicity(h, self) ==
    [i \in DOMAIN self.args |-> ABS_SIGN_TO_MONOTONICITY(h[self.args[i]].sign)]

Entr_sign(h, self) ==
    IF Has(Atom_argument_signs(h, self), "ZERO") THEN "ZERO" ELSE "UNKNOWN"

Entr_signed_curvature(h, self) ==
    IF Has(Atom_argument_signs(h, self), "NEGATIVE") THEN "NONCONVEX" ELSE "CONCAVE"

Huber_sign(h, self) ==
    IF Has(Atom_argument_signs(h, self), "ZERO") THEN "ZERO" ELSE "POSITIVE"

Huber_monotonicity(h, self) == <<ABS_SIGN_TO_MONOTONICITY(h[self.args[1]].sign)>>

Huber_pos_sign(h, self) ==
    IF SignLe(h[self.args[1]].sign, "ZERO") THEN "ZERO" ELSE "POSITIVE"

Inv_pos_sign(h, self) ==
    IF h[self.args[1]].sign \in {"NEGATIVE", "ZERO"} THEN "UNKNOWN" ELSE "POSITIVE"

Inv_pos_signed_curvature(h, self) ==
    IF h[self.args[1]].sign \in {"NEGATIVE", "ZERO"} THEN "NONCONVEX" ELSE "CONVEX"

Kl_div_signed_curvature(h, self) ==
    LET ss == Atom_argument_signs(h, self)
    IN IF Has(ss, "NEGATIVE") \/ Has(ss, "ZERO") THEN "NONCONVEX" ELSE "CONVEX"

\* Pow keeps self.p = self.parameter and self.x = self.args[0]; this is the
\* domain test shared by Pow.sign and Pow.signed_curvature.
Pow_domain_error(h, self) ==
    \/ h[self.args[1]].sign = "NEGATIVE"
    \/ self.parameter.v <= N(0) /\ h[self.args[1]].sign = "ZERO"

Pow_sign(h, self) ==
    IF Pow_domain_error(h, self) THEN "UNKNOWN"
    ELSE IF h[self.args[1]].sign = "ZERO" THEN "ZERO" ELSE "POSITIVE"

Pow_signed_curvature(h, self) ==
    IF Pow_domain_error(h, self) THEN "NONCONVEX"
    ELSE IF self.parameter.v <= N(0) THEN "CONVEX"
    ELSE IF self.parameter.v <= N(1) THEN "CONCAVE"
    ELSE "CONVEX"

Pow_monotonicity(h, self) ==
    IF self.parameter.v <= N(0) THEN <<"DECREASING">>
    ELSE IF self.parameter.v <= N(1) THEN <<"INCREASING">>
    ELSE <<ABS_SIGN_TO_MONOTONICITY(h[self.args[1]].sign)>>

\* Quad_over_lin keeps self.x = self.args[0] and self.y = self.args[1].
Quad_over_lin_sign(h, self) ==
    IF h[self.args[2]].sign \in {"NEGATIVE", "ZERO"} THEN "UNKNOWN" ELSE "POSITIVE"

Quad_over_lin_signed_curvature(h, self) ==
    IF h[self.args[2]].sign \in {"NEGATIVE", "ZERO"} THEN "NONCONVEX" ELSE "CONVEX"

\* Quad_over_lin.monotonicity without the entry of the divisor.
Quad_over_lin_monotonicity_NoDivisor(h, self) ==
    <<ABS_SIGN_TO_MONOTONICITY(h[self.args[1]].sign)>>

Quad_over_lin_monotonicity(h, self) ==
    <<ABS_SIGN_TO_MONOTONICITY(h[self.args[1]].sign), "DECREASING">>

\* self.sign(): the method of the class that supplies it.
sign(h, self) ==
    LET o == self.methods["sign"]
    IN CASE o \in {"Log_sum_exp", "Log", "Log_normcdf", "Rel_entr", "Sum_largest"}
                -> "UNKNOWN"
         [] o \in {"Exp", "Kl_div", "Norm_largest"} -> "POSITIVE"
         [] o = "Max" -> Max_sign(h, self)
         [] o = "Min" -> Min_sign(h, self)
         [] o = "Sum" -> Sum_sign(h, self)
         [] o = "Geo_mean" -> Geo_mean_sign(h, self)
         [] o = "Norm" -> Norm_sign(h, self)
         [] o = "Entr" -> Entr_sign(h, self)
         [] o = "Huber" -> Huber_sign(h, self)
         [] o = "Huber_pos" -> Huber_pos_sign(h, self)
         [] o = "Inv_pos" -> Inv_pos_sign(h, self)
         [] o = "Pow" -> Pow_sign(h, self)
         [] o = "Quad_over_lin" -> Quad_over_lin_sign(h, self)

Huber_pos_signed_curvature(h, self) ==
    IF SignLe(sign(h, self), "ZERO") THEN "CONSTANT" ELSE "CONVEX"

\* self.signed_curvature()
signed_curvature(h, self) ==
    LET o == self.methods["signed_curvature"]
    IN CASE o \in {"Log_sum_exp", "Max", "Huber", "Norm_largest", "Rel_entr",
                   "Sum_largest"} -> "CONVEX"
         [] o \in {"Min", "Log_normcdf", "Sum_smallest"} -> "CONCAVE"
         [] o = "Log" -> Log_signed_curvature(h, self)
         [] o = "Sum" -> Sum_signed_curvature(h, self)
         [] o = "Geo_mean" -> Geo_mean_signed_curvature(h, self)
         [] o = "Exp" -> Exp_signed_curvature(h, self)
         [] o = "Norm" -> Norm_signed_curvature(h, self)
         [] o = "Entr" -> Entr_signed_curvature(h, self)
         [] o = "Huber_pos" -> Huber_pos_signed_curvature(h, self)
         [] o = "Inv_pos" -> Inv_pos_signed_curvature(h, self)
         [] o = "Kl_div" -> Kl_div_signed_curvature(h, self)
         [] o = "Pow" -> Pow_signed_curvature(h, self)
         [] o = "Quad_over_lin" -> Quad_over_lin_signed_curvature(h, self)

\* self.monotonicity()
monotonicity(h, self) ==
    LET o == self.methods["monotonicity"]
    IN CASE o \in {"Log_sum_exp", "Max", "Min", "Sum", "Geo_mean", "Sum_largest",
                   "Sum_smallest"} -> Repeat("INCREASING", self)
         [] o \in {"Log", "Log_normcdf", "Huber_pos"} -> <<"INCREASING">>
         [] o = "Exp" -> Exp_monotonicity(h, self)
         [] o \in {"Norm", "Norm_largest"} -> Norm_monotonicity(h, self)
         [] o = "Entr" -> <<"NONMONOTONIC">>
         [] o = "Huber" -> Huber_monotonicity(h, self)
         [] o = "Inv_pos" -> <<"DECREASING">>
         [] o \in {"Kl_div", "Rel_entr"} -> Repeat("NONMONOTONIC", self)
         [] o = "Pow" -> Pow_monotonicity(h, self)
         [] o = "Quad_over_lin" -> Quad_over_lin_monotonicity(h, self)

\* Atom.dcp_curvature(curvature, args, monotonicities): whether it raises,
\* and the curvature it returns otherwise.
Atom_dcp_curvature_raises(args, monotonicities) == Len(args) # Len(monotonicities)

\* A composition that keeps the contribution of the last argument alone.
Atom_dcp_curvature_LastOnly(h, curv, args, monotonicities) ==
    IF Len(args) = 0 THEN "CONSTANT"
    ELSE Monotonicity_dcp_curvature(monotonicities[Len(args)], curv,
                                    h[args[Len(args)]].curvature)

Atom_dcp_curvature(h, curv, args, monotonicities) ==
    Curvature_sum([i \in DOMAIN args |->
        Monotonicity_dcp_curvature(monotonicities[i], curv, h[args[i]].curvature)])

\* Atom.curvature
Atom_curvature_raises(h, self) ==
    Atom_dcp_curvature_raises(self.args, monotonicity(h, self))

Atom_curvature(h, self) ==
    Atom_dcp_curvature(h, signed_curvature(h, self), self.args, monotonicity(h, self))

\* A diagnostic: un-indexed (a domain violation) or indexed by an argument.
Diag(indexed, index) == [indexed |-> indexed, index |-> index]

\* DCPViolationFactory.composition_error(curvature, monotonicities,
\* arg_curvatures): one un-indexed diagnostic when the rule's own curvature
\* is NONCONVEX, and one diagnostic indexed i for every argument i whose
\* contribution is NONCONVEX.
DCPViolationFactory_composition_error(curv, monotonicities, arg_curvatures) ==
    LET n == IF Len(monotonicities) < Len(arg_curvatures)
             THEN Len(monotonicities) ELSE Len(arg_curvatures)
        bad(i) == Monotonicity_dcp_curvature(monotonicities[i], curv,
                                             arg_curvatures[i]) = "NONCONVEX"
        idx == SelectSeq([i \in 1..n |-> i], bad)
    IN (IF curv = "NONCONVEX" THEN <<Diag(FALSE, 0 - 1)>> ELSE <<>>)
       \o [j \in DOMAIN idx |-> Diag(TRUE, idx[j] - 1)]

(***************************************************************************)
(* Parameters.                                                             *)
(***************************************************************************)
\* Atom.constant_to_number(constant): [err, val], val the number a Constant
\* or a negated Constant denotes, the argument itself otherwise.
Atom_constant_to_number(h, x) ==
    IF /\ x.t = "e"
       /\ \/ h[x.v].isConstant
          \/ /\ Len(h[x.v].subexpressions) = 1
             /\ h[x.v].name = MINUS \o h[h[x.v].subexpressions[1]].name
    THEN IF ParsesAsNumber(h[x.v].name)
         THEN [err |-> "", val |-> Num(ParseNumber(h[x.v].name))]
         ELSE [err |-> ErrValue, val |-> x]
    ELSE [err |-> "", val |-> x]

\* Norm.validate_parameter without the lower bound on a numeric p.
Norm_validate_parameter_NoLowerBound(self) ==
    IsNumber(self.parameter) \/ self.parameter = Str_Inf

Norm_validate_parameter(self) ==
    \/ IsNumber(self.parameter) /\ self.parameter.v >= N(1)
    \/ self.parameter = Str_Inf

Huber_validate_parameter(self) ==
    IsNumber(self.parameter) /\ self.parameter.v > N(0)

\* Pow.validate_parameter, Norm_largest.validate_parameter and
\* Sum_largest.validate_parameter
Pow_validate_parameter(self) == IsNumber(self.parameter)

\* Pow_abs.validate_parameter and Pow_pos.validate_parameter
Pow_abs_validate_parameter(self) ==
    IsNumber(self.parameter) /\ self.parameter.v >= N(1)

\* self.validate_parameter(): TRUE when it returns, FALSE when it raises.
validate_parameter(self) ==
    LET o == self.methods["validate_parameter"]
    IN CASE o = "Norm" -> Norm_validate_parameter(self)
         [] o = "Huber" -> Huber_validate_parameter(self)
         [] o \in {"Pow", "Norm_largest", "Sum_largest"} -> Pow_validate_parameter(self)
         [] o \in {"Pow_abs", "Pow_pos"} -> Pow_abs_validate_parameter(self)

\* Parameterized.set_parameter(default, *args): the last argument becomes
\* the parameter when it is not an Expression after constant_to_number;
\* the parameter is then validated; the remaining arguments are returned
\* (in c.ret).
Parameterized_set_parameter(c, default, vals) ==
    IF c.err # "" THEN c
    ELSE LET k == IF Len(vals) > 0
                  THEN Atom_constant_to_number(c.heap, vals[Len(vals)])
                  ELSE [err |-> "", val |-> None]
             peel == Len(vals) > 0 /\ k.err = "" /\ ~IsExpression(k.val)
             c0 == [c EXCEPT !.self.parameter = default]
             c1 == [c EXCEPT !.self.parameter = IF peel THEN k.val ELSE default,
                             !.ret = IF peel THEN SubSeq(vals, 1, Len(vals) - 1)
                                     ELSE vals]
         IN IF k.err # "" THEN Raise(c0, k.err)
            ELSE IF ~validate_parameter(c1.self) THEN Raise(c1, ErrParameter)
            ELSE c1

(***************************************************************************)
(* Constructors.  Each takes the context whose self is the new instance    *)
(* and returns the context after __init__; an operator is the identity on  *)
(* a context that already carries an exception.                            *)
(***************************************************************************)
Refs(ids) == [i \in DOMAIN ids |-> Ref(ids[i])]

\* Atom.__init__(*args)
Atom_init(c, vals) ==
    IF c.err # "" THEN c
    ELSE IF Len(vals) = 0 THEN Raise(c, ErrNoArguments)
    ELSE IF ~TypeCheckable(vals) THEN Raise(c, ErrTypeCheck)
    ELSE LET tc == Expression_type_check(c.heap, vals)
         IN [c EXCEPT !.heap = tc.heap, !.self.args = tc.ids,
                      !.self.original_args = tc.ids]

\* Atom.save_original_args(original_args)
Atom_save_original_args(c, vals) ==
    IF c.err # "" THEN c
    ELSE IF ~TypeCheckable(vals) THEN Raise(c, ErrTypeCheck)
    ELSE LET tc == Expression_type_check(c.heap, vals)
         IN [c EXCEPT !.heap = tc.heap, !.self.original_args = tc.ids]

\* Atom.atom_to_expression(instance), instance being c.self: the generated
\* Expression (in c.rid) has the instance's curvature and sign and the
\* instance's arguments() as subexpressions.
Atom_atom_to_expression(c) ==
    IF c.err # "" THEN c
    ELSE IF Atom_curvature_raises(c.heap, c.self)
    THEN Raise([c EXCEPT !.ruled = TRUE], ErrContract)
    ELSE [c EXCEPT !.heap = Expression_init(c.heap, Atom_curvature(c.heap, c.self),
                                sign(c.heap, c.self), <<Tok("atom", 0)>>,
                                Atom_arguments(c.self), <<>>),
                   !.rid = Len(c.heap) + 1,
                   !.ruled = TRUE]

\* cls(*vals), defined below: a constructor that builds another instance
\* calls it with its own context, and takes its own instance back after.
RECURSIVE New(_, _, _)

\* The return from cls(*vals), called in context c, to the instance of c.
Outer(c2, c) == [c2 EXCEPT !.self = c.self]

\* args = self.set_parameter(default, *vals); Atom.__init__(self, *args)
Parameterized_init(c1) == Atom_init(c1, c1.ret)

Norm_init(c, vals) ==
    Parameterized_init(Parameterized_set_parameter(c, Num(N(2)), vals))

Norm2_init(c, vals) == Norm_init(c, vals \o <<Num(N(2))>>)

Norm1_init(c, vals) == Norm_init(c, vals \o <<Num(N(1))>>)

Norm_inf_init(c, vals) == Norm_init(c, vals \o <<Str_Inf>>)

Abs_init(c, x) == Norm_init(c, <<x, Num(N(1))>>)

Huber_init(c, x, M) ==
    IF c.err # "" THEN c
    ELSE LET k == Atom_constant_to_number(c.heap, M)
         IN IF k.err # "" THEN Raise(c, k.err)
            ELSE Atom_init(Parameterized_set_parameter(c, k.val, <<>>), <<x>>)

\* Huber_circ.__init__ after args = self.set_parameter(1, *args), c1 the
\* context at that point and cn the one after
\* norm = Atom.atom_to_expression(Norm(*tmp_args)).
Huber_circ_init_rest(c1, cn) ==
    Atom_save_original_args(
        Huber_init(Outer(cn, c1), Ref(cn.rid), c1.self.parameter), c1.ret)

Huber_circ_init_norm(c1) ==
    Huber_circ_init_rest(c1,
        Atom_atom_to_expression(New(c1, "Norm", c1.ret \o <<Num(N(2))>>)))

Huber_circ_init(c, vals) ==
    Huber_circ_init_norm(Parameterized_set_parameter(c, Num(N(1)), vals))

\* Norm_largest.__init__ and Sum_largest.__init__
Norm_largest_init(c, vals) ==
    Parameterized_init(Parameterized_set_parameter(c, None, vals))

Pos_init(c, x) == Atom_save_original_args(Atom_init(c, <<x, Num(N(0))>>), <<x>>)

Pow_init(c, x, p) ==
    IF c.err # "" THEN c
    ELSE LET k == Atom_constant_to_number(c.heap, p)
         IN IF k.err # "" THEN Raise(c, k.err)
            ELSE Atom_init(Parameterized_set_parameter(c, k.val, <<>>), <<x>>)

\* Pow_abs.__init__ and Pow_pos.__init__ after abs_exp (pos_exp) =
\* Atom.atom_to_expression(Abs(x)) (Pos(x)), ce the context at that point.
Pow_abs_init_rest(c, ce, x, p) ==
    Atom_save_original_args(Pow_init(Outer(ce, c), Ref(ce.rid), p), <<x>>)

Pow_abs_init(c, x, p) ==
    Pow_abs_init_rest(c, Atom_atom_to_expression(New(c, "Abs", <<x>>)), x, p)

Pow_pos_init(c, x, p) ==
    Pow_abs_init_rest(c, Atom_atom_to_expression(New(c, "Pos", <<x>>)), x, p)

Square_abs_init(c, x) == Pow_abs_init(c, x, Num(N(2)))

Square_pos_init(c, x) == Pow_pos_init(c, x, Num(N(2)))

Quad_over_lin_init(c, x, y) == Atom_init(c, <<x, y>>)

\* Square.__init__ without self.save_original_args([x]).
Square_init_NoSave(c, x) == Quad_over_lin_init(c, x, Num(N(1)))

Square_init(c, x) ==
    Atom_save_original_args(Quad_over_lin_init(c, x, Num(N(1))), <<x>>)

\* Sum_square.__init__ after norm_exp = Atom.atom_to_expression(Norm(*args)),
\* ce the context at that point.
Sum_square_init_rest(c, ce, x) ==
    Atom_save_original_args(
        Quad_over_lin_init(Outer(ce, c), Ref(ce.rid), Num(N(1))), x)

Sum_square_init(c, x) ==
    Sum_square_init_rest(c,
        Atom_atom_to_expression(New(c, "Norm", x \o <<Num(N(2))>>)), x)

\* exp_vec.append(abs_exp): ca the context after
\* Atom.atom_to_expression(cls(scalar)), c the one before.
Append_exp(c, ca) ==
    IF ca.err # "" THEN Outer(ca, c)
    ELSE [Outer(ca, c) EXCEPT !.ret = Append(c.ret, Ref(ca.rid))]

\* for scalar in x: exp_vec.append(Atom.atom_to_expression(cls(scalar))),
\* cls being Abs or Pos; c.ret accumulates exp_vec.
RECURSIVE EachToExpression(_, _, _, _)
EachToExpression(c, cls, x, i) ==
    IF i > Len(x) \/ c.err # "" THEN c
    ELSE EachToExpression(
             Append_exp(c, Atom_atom_to_expression(New(c, cls, <<x[i]>>))),
             cls, x, i + 1)

\* super(Sum_square_abs, self).__init__(*exp_vec);
\* self.save_original_args(list(x))
Sum_square_abs_init_rest(ce, x) ==
    Atom_save_original_args(Sum_square_init(ce, ce.ret), x)

Sum_square_abs_init(c, x) ==
    Sum_square_abs_init_rest(EachToExpression([c EXCEPT !.ret = <<>>], "Abs", x, 1), x)

Sum_square_pos_init(c, x) ==
    Sum_square_abs_init_rest(EachToExpression([c EXCEPT !.ret = <<>>], "Pos", x, 1), x)

\* The numbers of positional arguments __init__ of class o accepts, when it
\* is not a *args constructor.
Arity(o) ==
    CASE o \in {"Log", "Sqrt", "Log_normcdf", "Exp", "Abs", "Entr", "Inv_pos",
                "Pos", "Square_abs", "Square_pos", "Square"} -> {1}
      [] o = "Huber" -> {1, 2}
      [] o \in {"Kl_div", "Pow", "Pow_abs", "Pow_pos", "Rel_entr",
                "Quad_over_lin"} -> {2}
      [] OTHER -> Nat

\* self.__init__(*vals): the __init__ the class of c.self supplies; a call
\* that does not fit its signature raises TypeError.
Call_init(c, o, vals) ==
    IF Len(vals) \notin Arity(o) THEN Raise(c, ErrSignature)
    ELSE CASE o \in {"Atom", "Geo_mean"} -> Atom_init(c, vals)
           [] o \in {"Log", "Sqrt", "Log_normcdf", "Exp", "Entr", "Inv_pos"}
                 -> Atom_init(c, <<vals[1]>>)
           [] o \in {"Kl_div", "Rel_entr"} -> Atom_init(c, <<vals[1], vals[2]>>)
           [] o = "Norm" -> Norm_init(c, vals)
           [] o = "Norm2" -> Norm2_init(c, vals)
           [] o = "Norm1" -> Norm1_init(c, vals)
           [] o = "Norm_inf" -> Norm_inf_init(c, vals)
           [] o = "Abs" -> Abs_init(c, vals[1])
           [] o = "Huber" -> Huber_init(c, vals[1],
                                 IF Len(vals) = 2 THEN vals[2] ELSE Num(N(1)))
           [] o = "Huber_circ" -> Huber_circ_init(c, vals)
           [] o \in {"Norm_largest", "Sum_largest"} -> Norm_largest_init(c, vals)
           [] o = "Pos" -> Pos_init(c, vals[1])
           [] o = "Pow" -> Pow_init(c, vals[1], vals[2])
           [] o = "Pow_abs" -> Pow_abs_init(c, vals[1], vals[2])
           [] o = "Pow_pos" -> Pow_pos_init(c, vals[1], vals[2])
           [] o = "Square_abs" -> Square_abs_init(c, vals[1])
           [] o = "Square_pos" -> Square_pos_init(c, vals[1])
           [] o = "Quad_over_lin" -> Quad_over_lin_init(c, vals[1], vals[2])
           [] o = "Square" -> Square_init(c, vals[1])
           [] o = "Sum_square" -> Sum_square_init(c, vals)
           [] o = "Sum_square_abs" -> Sum_square_abs_init(c, vals)
           [] o = "Sum_square_pos" -> Sum_square_pos_init(c, vals)

\* The context in which cls.__init__ runs: the instance is allocated.
Allocate(c, cls) == [c EXCEPT !.self = NewSelf(cls)]

Run_init(c0, vals) == Call_init(c0, c0.self.methods["__init__"], vals)

\* cls(*vals): allocates the instance and runs the __init__ its class
\* supplies.
New(c, cls, vals) == IF c.err # "" THEN c ELSE Run_init(Allocate(c, cls), vals)

(***************************************************************************)
(* atom_loader.make_atomic_func.                                           *)
(***************************************************************************)
RECURSIVE JoinNames(_, _, _)
\* str(args[0]) + ", " + str(args[1]) + ...
JoinNames(h, args, i) ==
    IF i > Len(args) THEN <<>>
    ELSE (IF i > 1 THEN <<Tok(",", 0)>> ELSE <<>>) \o h[args[i]].name
         \o JoinNames(h, args, i + 1)

\* func_name + "(" + str(args[0]) + ... + ")"
atomic_func_name(h, cls, args) ==
    <<Tok(Lower(cls), 0), Tok("(", 0)>> \o JoinNames(h, args, 1) \o <<Tok(")", 0)>>

\* The builder handing the Expression the rule's substituted arguments.
atomic_func_subexpressions_OfRule(args, instance) == instance.args

\* The subexpressions the returned Expression is given: the builder's own
\* (type-checked) arguments.
atomic_func_subexpressions(args, instance) == args

\* The outcome of a call: the heap afterwards, the exception raised ("" when
\* none), the Expression returned (0 when none), the type-checked arguments,
\* the instance, and whether a rule method ran before the call ended.
Outcome(h, e, node, args, inst, ruled) ==
    [heap |-> h, err |-> e, node |-> node, args |-> args, inst |-> inst,
     ruled |-> ruled]

\* What the builder raises on an empty argument list: its raise statement
\* formats func_name, a local that is only assigned further down.
atomic_func_empty_error == ErrUnboundLocal

\* The rest of atomic_func once the instance exists (c the context after
\* cls(*args), args the builder's type-checked arguments): the diagnostics,
\* then the Expression.
atomic_func_finish(c, cls, args) ==
    IF c.err # "" THEN Outcome(c.heap, c.err, 0, args, c.self, c.ruled)
    ELSE IF Atom_curvature_raises(c.heap, c.self)
    THEN Outcome(c.heap, ErrContract, 0, args, c.self, TRUE)
    ELSE Outcome(
            Expression_init(c.heap, Atom_curvature(c.heap, c.self),
                sign(c.heap, c.self), atomic_func_name(c.heap, cls, args),
                atomic_func_subexpressions(args, c.self),
                DCPViolationFactory_composition_error(
                    signed_curvature(c.heap, c.self), monotonicity(c.heap, c.self),
                    Atom_argument_curvatures(c.heap, c.self))),
            "", Len(c.heap) + 1, args, c.self, TRUE)

\* atomic_func(*vals) of make_atomic_func(cls).
atomic_func(h, cls, vals) ==
    IF Len(vals) = 0
    THEN Outcome(h, atomic_func_empty_error, 0, <<>>, NoInstance, FALSE)
    ELSE IF ~TypeCheckable(vals)
    THEN Outcome(h, ErrTypeCheck, 0, <<>>, NoInstance, FALSE)
    ELSE LET tc == Expression_type_check(h, vals)
         IN atomic_func_finish(New(Ctx(tc.heap), cls, Refs(tc.ids)), cls, tc.ids)

\* cls(*vals) called directly: the outcome of the constructor alone.
Constructed(c) == Outcome(c.heap, c.err, 0, <<>>, c.self, c.ruled)

construct(h, cls, vals) == Constructed(New(Ctx(h), cls, vals))

(***************************************************************************)
(* The state machine.  heap: the Expression objects; atom_dict: the        *)
(* registry; last: the most recent call and its outcome; builds: the       *)
(* number of calls made.                                                   *)
(***************************************************************************)
\* Curvature and sign of the argument expressions a caller may hold.
LeafKinds == Curvatures \X Signs

\* An expression that exists before the call: the i-th one is named x_i.
Leaf(i, kind) == Node(kind[1], kind[2], <<Tok("id", i)>>, <<>>, <<>>, FALSE)

\* Literal numbers a caller may pass: -1, 0.5 and 2.
Literals == {Num(N(0 - 1)), Num(1), Num(N(2))}

NoCall ==
    [op |-> "none", cls |-> "Atom", vals |-> <<>>, pre |-> 0,
     out |-> Outcome(<<>>, "", 0, <<>>, NoInstance, FALSE)]

\* The argument lists of at most MaxArgs entries over the expressions in
\* `ids`, the last entry possibly a literal.
ArgLists(ids) ==
    LET refs == {Ref(i) : i \in ids}
    IN UNION {{a \in [1..n -> refs \cup Literals] :
                  \A i \in 1..(n - 1) : a[i] \in refs} : n \in 0..MaxArgs}

\* The expressions a caller holds: those it made and those returned to it.
Held(h) == {i \in DOMAIN h : h[i].name[1].k \notin {"num", "-", "atom"}}

Record(op, cls, vals, out) ==
    /\ heap' = out.heap
    /\ last' = [op |-> op, cls |-> cls, vals |-> vals, pre |-> Len(heap),
                out |-> [out EXCEPT !.heap = <<>>]]
    /\ builds' = builds + 1
    /\ UNCHANGED atom_dict

\* make_atomic_func(cls)(*vals)
Build(cls, vals) == Record("build", cls, vals, atomic_func(heap, cls, vals))

\* atom_dict[name](*vals)
CallRegistered(name, vals) ==
    /\ name \in DOMAIN atom_dict
    /\ Record("build", atom_dict[name], vals, atomic_func(heap, atom_dict[name], vals))

\* cls(*vals)
Construct(cls, vals) == Record("construct", cls, vals, construct(heap, cls, vals))

BuildStep == \E cls \in AtomClasses, vals \in ArgLists(Held(heap)) : Build(cls, vals)

CallStep ==
    \E name \in DOMAIN atom_dict, vals \in ArgLists(Held(heap)) :
        CallRegistered(name, vals)

ConstructStep ==
    \E cls \in AtomClasses, vals \in ArgLists(Held(heap)) : Construct(cls, vals)

\* One call on argument expressions of every curvature and sign.
Init ==
    /\ heap \in [1..MaxLeaves -> {Leaf(i, k) : i \in 1..MaxLeaves, k \in LeafKinds}]
    /\ \A i \in 1..MaxLeaves : heap[i].name = <<Tok("id", i)>>
    /\ atom_dict = generate_atom_dict
    /\ last = NoCall
    /\ builds = 0

Next ==
    \/ builds = 0 /\ BuildStep
    \/ builds = 0 /\ CallStep
    \/ builds = 0 /\ ConstructStep

Spec == Init /\ [][Next]_vars

\* The negation of the expression i: the expression constant_to_number
\* tests for, with one subexpression and the name MINUS followed by the
\* subexpression's name.
Negation(h, i, kind) ==
    Expression_init(h, kind[1], kind[2], MINUS \o h[i].name, <<i>>, <<>>)

\* The expressions x, -x, 2 and -2.
NegHeap(k, kn) ==
    Negation(Append(Negation(<<Leaf(1, k)>>, 1, kn), Constant(N(2))), 3,
             <<"CONSTANT", "NEGATIVE">>)

\* One builder call on x, -x, 2 and -2, x and -x of every curvature and sign.
InitNeg ==
    /\ heap \in {NegHeap(k, kn) : k \in LeafKinds, kn \in LeafKinds}
    /\ atom_dict = generate_atom_dict
    /\ last = NoCall
    /\ builds = 0

BuildNegStep == \E cls \in AtomClasses, vals \in ArgLists(DOMAIN heap) : Build(cls, vals)

NextNeg == builds = 0 /\ BuildNegStep

SpecNeg == InitNeg /\ [][NextNeg]_vars

\* Successive calls, each on the expressions held so far, starting from one
\* variable (curvature AFFINE, sign UNKNOWN).
InitTree ==
    /\ heap = <<Leaf(1, <<"AFFINE", "UNKNOWN">>)>>
    /\ atom_dict = generate_atom_dict
    /\ last = NoCall
    /\ builds = 0

NextTree ==
    \/ builds < MaxBuilds /\ BuildStep
    \/ builds < MaxBuilds /\ CallStep
    \/ builds < MaxBuilds /\ ConstructStep

SpecTree == InitTree /\ [][NextTree]_vars

(***************************************************************************)
(* The call recorded in `last`, as the claims below read it.               *)
(***************************************************************************)
Called == last.op # "none"
Built == last.op = "build"
Returned == Built /\ last.out.err = ""

\* The Expression the builder returned, and the i-th argument it was given
\* (after numeric literals became Constants).
Result == heap[last.out.node]
Arg(i) == heap[last.out.args[i]]

\* The builder of class cls was called on n expressions (no literal).
BuiltOn(cls, n) ==
    /\ Built /\ last.cls = cls /\ Len(last.vals) = n
    /\ \A i \in 1..n : IsExpression(last.vals[i])

\* The exceptions that abort a construction.
AbortErrors == ArityErrors \cup ParameterErrors \cup ContractErrors

(***************************************************************************)
(* C1.                                                                     *)
(***************************************************************************)
\* C1: every concrete atom class of atoms.py, those defined in terms of
\* another atom included, is a key of the registry, under its lower-cased
\* class name, and the key's builder is that class's.
C1_EveryClassRegistered ==
    \A c \in AtomClasses : Lower(c) \in DOMAIN atom_dict /\ atom_dict[Lower(c)] = c

(***************************************************************************)
(* C2.                                                                     *)
(***************************************************************************)
\* C2: exp built on a CONVEX sub-expression returns a node of curvature
\* CONVEX without diagnostics; built on a CONCAVE sub-expression it returns
\* a node of curvature NONCONVEX whose diagnostics are exactly one
\* diagnostic, indexed with argument index 0.
C2_ExpComposition ==
    BuiltOn("Exp", 1) =>
        /\ Arg(1).curvature = "CONVEX" =>
              Returned /\ Result.curvature = "CONVEX" /\ Result.errors = <<>>
        /\ Arg(1).curvature = "CONCAVE" =>
              /\ Returned /\ Result.curvature = "NONCONVEX"
              /\ Result.errors = <<Diag(TRUE, 0)>>

\* exp has been built on a CONCAVE sub-expression and carries a diagnostic.
C2_Witness ==
    /\ BuiltOn("Exp", 1) /\ Arg(1).curvature = "CONCAVE"
    /\ Returned /\ Len(Result.errors) = 1

(***************************************************************************)
(* C3.                                                                     *)
(***************************************************************************)
\* C3: sum(x, y) of two CONVEX expressions has curvature CONVEX; sum(x, y)
\* of a CONVEX x and a CONCAVE y has curvature NONCONVEX and a diagnostic
\* list that is not empty.
C3_SumDiagnostics ==
    BuiltOn("Sum", 2) =>
        /\ (Arg(1).curvature = "CONVEX" /\ Arg(2).curvature = "CONVEX") =>
              Returned /\ Result.curvature = "CONVEX"
        /\ (Arg(1).curvature = "CONVEX" /\ Arg(2).curvature = "CONCAVE") =>
              /\ Returned /\ Result.curvature = "NONCONVEX"
              /\ Result.errors # <<>>

(***************************************************************************)
(* C4.                                                                     *)
(***************************************************************************)
\* C4 as stated: log(x) with x NEGATIVE returns a node of curvature
\* NONCONVEX and sign UNKNOWN whose diagnostics are one un-indexed
\* diagnostic and nothing else; log(x) with x POSITIVE returns curvature
\* CONCAVE, sign UNKNOWN and no diagnostics.
C4_LogAsStated ==
    BuiltOn("Log", 1) =>
        /\ Arg(1).sign = "NEGATIVE" =>
              /\ Returned /\ Result.curvature = "NONCONVEX"
              /\ Result.sign = "UNKNOWN"
              /\ Len(Result.errors) = 1 /\ ~Result.errors[1].indexed
        /\ Arg(1).sign = "POSITIVE" =>
              /\ Returned /\ Result.curvature = "CONCAVE"
              /\ Result.sign = "UNKNOWN" /\ Result.errors = <<>>

\* C4 amended: log(x) always returns a node of sign UNKNOWN.  With x
\* NEGATIVE its curvature is NONCONVEX and its diagnostics are one
\* un-indexed diagnostic followed by the diagnostic indexed 0; with x
\* POSITIVE and of curvature CONSTANT, AFFINE or CONCAVE its curvature is
\* CONCAVE and it has no diagnostics.
C4_LogDomain ==
    BuiltOn("Log", 1) =>
        /\ Returned /\ Result.sign = "UNKNOWN"
        /\ Arg(1).sign = "NEGATIVE" =>
              /\ Result.curvature = "NONCONVEX"
              /\ Result.errors = <<Diag(FALSE, 0 - 1), Diag(TRUE, 0)>>
        /\ (Arg(1).sign = "POSITIVE" /\ CurvLe(Arg(1).curvature, "CONCAVE")) =>
              Result.curvature = "CONCAVE" /\ Result.errors = <<>>

\* log has been built on a NEGATIVE expression and carries both diagnostics.
C4_Witness ==
    /\ BuiltOn("Log", 1) /\ Arg(1).sign = "NEGATIVE"
    /\ Returned /\ Len(Result.errors) = 2

(***************************************************************************)
(* C5.                                                                     *)
(***************************************************************************)
\* norm was called with the number p (twice its value: v2) as last argument.
NormWithParameter == Called /\ last.cls = "Norm" /\ Len(last.vals) >= 1
                     /\ IsNumber(last.vals[Len(last.vals)])

\* norm(x1, ..., xn, 2) was built, n >= 1, every xi an expression.
NormTwo ==
    /\ Built /\ last.cls = "Norm" /\ Len(last.vals) >= 2
    /\ last.vals[Len(last.vals)] = Num(N(2))
    /\ \A i \in 1..(Len(last.vals) - 1) : IsExpression(last.vals[i])

\* The parameter half of C5: a numeric p below 1 makes the call fail with a
\* parameter error, and no node is returned.
NormParameterRejected ==
    (NormWithParameter /\ last.vals[Len(last.vals)].v < N(1)) =>
        last.out.err \in ParameterErrors /\ last.out.node = 0

\* An argument whose curvature suits the monotonicity its sign gives norm.
SuitsNorm(e) ==
    \/ e.sign \in {"POSITIVE", "ZERO"} /\ e.curvature \in {"AFFINE", "CONVEX"}
    \/ e.sign = "NEGATIVE" /\ e.curvature \in {"AFFINE", "CONCAVE"}

\* C5 as stated: norm with a trailing p that is neither a number >= 1 nor
\* 'Inf' fails with a parameter error and returns no node; norm(x, 2)
\* succeeds and its curvature is CONVEX.
C5_NormAsStated ==
    /\ NormParameterRejected
    /\ NormTwo => Returned /\ Result.curvature = "CONVEX"

\* C5 amended: norm with a trailing p that is neither a number >= 1 nor
\* 'Inf' fails with a parameter error and returns no node; norm(x, 2)
\* succeeds, and its curvature is CONVEX when every x is AFFINE or CONVEX
\* with sign POSITIVE or ZERO, or AFFINE or CONCAVE with sign NEGATIVE.
C5_NormParameter ==
    /\ NormParameterRejected
    /\ NormTwo =>
          /\ Returned
          /\ (\A i \in 1..(Len(last.vals) - 1) : SuitsNorm(Arg(i))) =>
                Result.curvature = "CONVEX"

\* norm(x, 0.5) has been called and has failed.
C5_Witness ==
    /\ Built /\ last.cls = "Norm" /\ Len(last.vals) = 2
    /\ IsExpression(last.vals[1]) /\ last.vals[2] = Num(1)
    /\ last.out.err \in ParameterErrors

(***************************************************************************)
(* C6.                                                                     *)
(***************************************************************************)
\* The atoms defined in terms of another atom: those without a parameter,
\* and those whose last argument may be the parameter.
Wrappers == {"Square", "Pos", "Sum_square", "Sum_square_abs", "Sum_square_pos"}
ParameterWrappers == {"Pow_abs", "Pow_pos", "Huber_circ"}

\* The first n arguments the caller supplied are the first n children of the
\* returned node and are all of the rule's arguments(), while the rule is
\* evaluated on other arguments.
OriginalsKept(n) ==
    /\ SubSeq(Result.subexpressions, 1, n) = SubSeq(last.out.args, 1, n)
    /\ Atom_arguments(last.out.inst) = SubSeq(last.out.args, 1, n)
    /\ last.out.inst.args # Atom_arguments(last.out.inst)

\* C6: for square, pos, sum_square, sum_square_abs, sum_square_pos, and for
\* the non-parameter arguments of pow_abs, pow_pos and huber_circ, the
\* children of the built node and the rule's arguments() are exactly the
\* expressions the caller supplied, in order (square(x) reports [x], never
\* [x, 1]), while the rule is evaluated on substituted arguments.
C6_OriginalArguments ==
    Returned =>
        /\ (\/ last.cls \in Wrappers
            \/ last.cls = "Huber_circ")
           /\ (\A i \in DOMAIN last.vals : IsExpression(last.vals[i]))
           => OriginalsKept(Len(last.vals)) /\ Len(Result.subexpressions) = Len(last.vals)
        /\ last.cls \in ParameterWrappers
           /\ (\A i \in 1..(Len(last.vals) - 1) : IsExpression(last.vals[i]))
           /\ IsNumber(last.vals[Len(last.vals)])
           => OriginalsKept(Len(last.vals) - 1)

\* square(x) has been built: its rule was evaluated on two arguments.
C6_Witness ==
    /\ Returned /\ last.cls = "Square" /\ IsExpression(last.vals[1])
    /\ Len(last.out.inst.args) = Len(last.vals) + 1
    /\ Result.subexpressions = last.out.args

(***************************************************************************)
(* C7.                                                                     *)
(***************************************************************************)
\* C7: a builder or a constructor called with zero arguments fails with an
\* arity error and constructs no Expression.
C7_ZeroArguments ==
    (Called /\ last.vals = <<>>) =>
        last.out.err \in ArityErrors /\ Len(heap) = last.pre

(***************************************************************************)
(* C8.                                                                     *)
(***************************************************************************)
\* Following parent links from node i reaches a node without parent in at
\* most n steps.
RECURSIVE ReachesRoot(_, _)
ReachesRoot(i, n) ==
    \/ heap[i].parent = 0
    \/ n > 0 /\ heap[i].parent \in DOMAIN heap /\ ReachesRoot(heap[i].parent, n - 1)

\* C8: after any sequence of constructions the parent links form no cycle
\* (from every node they lead to a node without parent); the node a builder
\* has just returned has no parent, and each argument of that builder has
\* the returned node as its parent.
C8_ParentLinks ==
    /\ \A i \in DOMAIN heap : ReachesRoot(i, Len(heap))
    /\ Returned =>
          /\ Result.parent = 0
          /\ \A i \in DOMAIN last.out.args : Arg(i).parent = last.out.node

\* A node returned by one builder has been passed to a second builder.
C8_Witness ==
    /\ Returned
    /\ \E i \in DOMAIN last.out.args :
          Arg(i).subexpressions # <<>> /\ Arg(i).parent = last.out.node

(***************************************************************************)
(* C9.                                                                     *)
(***************************************************************************)
\* C9: a node that has a parent never gets a different parent.
C9_ParentAssignedOnce ==
    [][\A i \in DOMAIN heap :
          heap[i].parent # 0 => heap'[i].parent = heap[i].parent]_vars

(***************************************************************************)
(* C10.                                                                    *)
(***************************************************************************)
\* C10: a call that aborts with an arity, parameter or contract error
\* leaves every expression that existed before it exactly as it was.
C10_NoPartialState ==
    [][last'.out.err \in AbortErrors =>
          \A i \in DOMAIN heap : heap'[i] = heap[i]]_vars

(***************************************************************************)
(* C11.                                                                    *)
(***************************************************************************)
\* The order the curvatures are joined in, pair by pair: CONSTANT below
\* AFFINE below CONVEX and CONCAVE below NONCONVEX.
Below ==
    {<<a, a>> : a \in Curvatures}
        \cup {<<"CONSTANT", b>> : b \in Curvatures}
        \cup {<<a, "NONCONVEX">> : a \in Curvatures}
        \cup {<<"AFFINE", "CONVEX">>, <<"AFFINE", "CONCAVE">>}

\* u is the least upper bound of the curvatures of the sequence cs.
IsLub(u, cs) ==
    /\ \A i \in DOMAIN cs : <<cs[i], u>> \in Below
    /\ \A w \in Curvatures :
          (\A i \in DOMAIN cs : <<cs[i], w>> \in Below) => <<u, w>> \in Below

\* The laws of Curvature.sum on the curvatures a and b and every third one.
SumLaws(a, b) ==
    /\ IsLub(Curvature_sum(<<a, b>>), <<a, b>>)
    /\ Curvature_sum(<<a, b>>) = Curvature_sum(<<b, a>>)
    /\ Curvature_sum(<<a, a>>) = a
    /\ Curvature_sum(<<a>>) = a
    /\ Curvature_sum(<<"CONSTANT", a>>) = a /\ Curvature_sum(<<a, "CONSTANT">>) = a
    /\ Curvature_sum(<<a, "NONCONVEX">>) = "NONCONVEX"
    /\ Curvature_sum(<<"NONCONVEX", a>>) = "NONCONVEX"
    /\ \A c \in Curvatures :
          /\ IsLub(Curvature_sum(<<a, b, c>>), <<a, b, c>>)
          /\ Curvature_sum(<<a, Curvature_sum(<<b, c>>)>>)
                = Curvature_sum(<<Curvature_sum(<<a, b>>), c>>)
          /\ Curvature_sum(<<a, b, c>>) = Curvature_sum(<<Curvature_sum(<<a, b>>), c>>)
          /\ Curvature_sum(<<a, b, c>>) = Curvature_sum(<<c, b, a>>)
          /\ Curvature_sum(<<a, b, c>>) = Curvature_sum(<<b, c, a>>)
          /\ ("NONCONVEX" \in {a, b, c}) => Curvature_sum(<<a, b, c>>) = "NONCONVEX"

\* The per-argument contributions of the rule instance the builder made:
\* one per evaluation argument, from its monotonicity entry, the rule's
\* signed curvature and the argument's curvature.
Contributions ==
    [i \in DOMAIN last.out.inst.args |->
        Monotonicity_dcp_curvature(monotonicity(heap, last.out.inst)[i],
            signed_curvature(heap, last.out.inst),
            heap[last.out.inst.args[i]].curvature)]

\* C11: Curvature.sum is the least upper bound of its elements in the order
\* CONSTANT below AFFINE below CONVEX and CONCAVE below NONCONVEX: it is
\* associative, commutative and idempotent, CONSTANT is its identity, a
\* sequence containing NONCONVEX yields NONCONVEX, CONVEX joined with CONCAVE
\* yields NONCONVEX (checked on the curvatures of every pair of expressions a
\* caller starts with, and every third curvature); and the curvature of a
\* node the builder returns is the least upper bound of the per-argument
\* contributions of its rule.
C11_CurvatureSum ==
    /\ Curvature_sum(<<>>) = "CONSTANT"
    /\ Curvature_sum(<<"CONVEX", "CONCAVE">>) = "NONCONVEX"
    /\ ~Called =>
          \A i, j \in 1..MaxLeaves : SumLaws(heap[i].curvature, heap[j].curvature)
    /\ Returned => IsLub(Result.curvature, Contributions)

\* sum(x, y) has been built on a CONVEX x and a CONCAVE y: the contributions
\* are CONVEX and CONCAVE and the node is NONCONVEX.
C11_Witness ==
    /\ BuiltOn("Sum", 2) /\ Returned
    /\ Contributions = <<"CONVEX", "CONCAVE">>
    /\ Result.curvature = "NONCONVEX"

(***************************************************************************)
(* C12.                                                                    *)
(***************************************************************************)
\* isinstance(an instance of class c, Parameterized): the rule carries a
\* parameter, listed by its own class statement or inherited.
RECURSIVE IsParameterized(_)
IsParameterized(c) ==
    /\ c # "Atom"
    /\ \/ c = "Parameterized"
       \/ \E i \in DOMAIN BasesOf(c) : IsParameterized(BasesOf(c)[i])

\* A rule instance has been constructed, by its class or by a builder.
Instantiated == Called /\ last.out.err = "" /\ last.out.inst # NoInstance

\* C12: the short display form of a rule instance is 'name(..., parameter)'
\* for every rule that carries a parameter, whether its class lists the
\* parameter capability or inherits it (norm1, norm2, norm_inf, abs,
\* square_abs, square_pos), and the bare lower-cased name for every other.
C12_ShortName ==
    Instantiated =>
        IF IsParameterized(last.out.inst.cls)
        THEN /\ Len(Atom_short_name(last.out.inst)) >= 4
             /\ Atom_short_name(last.out.inst)[1] = Tok(Lower(last.out.inst.cls), 0)
             /\ Atom_short_name(last.out.inst)[2] = Tok("(...,", 0)
        ELSE Atom_short_name(last.out.inst) = <<Tok(Lower(last.out.inst.cls), 0)>>

(***************************************************************************)
(* C13.                                                                    *)
(***************************************************************************)
\* The signs of the arguments the builder was given.
ArgSigns == {Arg(i).sign : i \in DOMAIN last.out.args}

\* The documented table of Max, read on a set of argument signs.
MaxTable(ss) ==
    CASE "POSITIVE" \in ss -> "POSITIVE"
      [] {"ZERO", "UNKNOWN"} \subseteq ss -> "POSITIVE"
      [] "UNKNOWN" \in ss -> "UNKNOWN"
      [] "ZERO" \in ss -> "ZERO"
      [] OTHER -> "NEGATIVE"

\* The documented table of Min, read on a set of argument signs.
MinTable(ss) ==
    CASE "NEGATIVE" \in ss -> "NEGATIVE"
      [] {"ZERO", "UNKNOWN"} \subseteq ss -> "NEGATIVE"
      [] "ZERO" \in ss -> "ZERO"
      [] "UNKNOWN" \in ss -> "UNKNOWN"
      [] OTHER -> "POSITIVE"

\* C13: the sign of a node built by max, and of one built by min, is the one
\* the documented reduction table gives for the signs of its arguments: for
\* max POSITIVE with anything is POSITIVE, ZERO with UNKNOWN POSITIVE, ZERO
\* with ZERO or NEGATIVE ZERO, UNKNOWN with NEGATIVE UNKNOWN, all NEGATIVE
\* NEGATIVE; for min the mirrored table with ZERO with UNKNOWN NEGATIVE.
C13_MaxMinSign ==
    /\ (Returned /\ last.cls = "Max") => Result.sign = MaxTable(ArgSigns)
    /\ (Returned /\ last.cls = "Min") => Result.sign = MinTable(ArgSigns)

(***************************************************************************)
(* C14.                                                                    *)
(***************************************************************************)
\* The parameterized classes whose constructor takes a variable argument
\* list, and the default each hands to set_parameter.
VarargParameterized == {"Norm", "Huber_circ", "Norm_largest", "Sum_largest"}

DefaultParameter(cls) ==
    CASE cls = "Norm" -> Num(N(2))
      [] cls = "Huber_circ" -> Num(N(1))
      [] OTHER -> None

\* The last argument of the call, and whether it is a constant or the
\* negation of a constant.
LastArg == Arg(Len(last.out.args))

IsScalar(e) ==
    \/ e.isConstant
    \/ /\ Len(e.subexpressions) = 1
       /\ heap[e.subexpressions[1]].isConstant
       /\ e.name = MINUS \o heap[e.subexpressions[1]].name

\* A builder of one of these classes has been called on at least one value.
VarargBuilt ==
    Built /\ last.cls \in VarargParameterized /\ Len(last.out.args) > 0

\* C14: in a call of norm, huber_circ, norm_largest or sum_largest, a last
\* argument that is a constant or a negated constant becomes the parameter
\* and is removed from the rule's arguments; otherwise no argument is
\* removed, the parameter is the rule's default and the default is what is
\* validated: the call goes on where the default is valid (norm,
\* huber_circ) and fails with a parameter error where it is not.  The
\* rule's evaluation arguments never contain the peeled parameter.
C14_ParameterPeeling ==
    VarargBuilt =>
        IF IsScalar(LastArg)
        THEN /\ last.out.inst.parameter = Num(ParseNumber(LastArg.name))
             /\ last.out.err \in {"", ErrParameter, ErrNoArguments}
             /\ last.out.err = "" =>
                    /\ last.out.inst.original_args
                          = SubSeq(last.out.args, 1, Len(last.out.args) - 1)
                    /\ \A i \in DOMAIN last.out.inst.args :
                          last.out.inst.args[i] # last.out.args[Len(last.out.args)]
        ELSE /\ last.out.inst.parameter = DefaultParameter(last.cls)
             /\ IF DefaultParameter(last.cls) = None
                THEN last.out.err = ErrParameter
                ELSE /\ last.out.err = ""
                     /\ last.out.inst.original_args = last.out.args

(***************************************************************************)
(* C15.                                                                    *)
(***************************************************************************)
\* C15: when a construction fails on an invalid parameter, no rule method
\* (sign, signed_curvature, curvature, monotonicity) has been evaluated
\* before the failure, neither of the atom under construction nor of an atom
\* it constructs internally.
C15_ValidationFirst ==
    (Called /\ last.out.err \in ParameterErrors) => ~last.out.ruled

(***************************************************************************)
(* C16.                                                                    *)
(***************************************************************************)
\* C16: no call raises the length-mismatch exception of Atom.dcp_curvature;
\* in every construction that passes arity and parameter validation the
\* list monotonicity() returns has as many entries as the rule has
\* evaluation arguments (self.args).
C16_NoContractFailure ==
    /\ Called => last.out.err \notin ContractErrors
    /\ (Called /\ last.out.err = "" /\ last.out.inst # NoInstance) =>
          Len(monotonicity(heap, last.out.inst)) = Len(last.out.inst.args)

\* square(x) has been built: its rule is evaluated on x and the constant 1,
\* and monotonicity() returns the two entries of Quad_over_lin.
C16_Witness ==
    /\ BuiltOn("Square", 1) /\ Returned
    /\ Len(last.out.inst.args) = 2
    /\ last.out.inst.original_args = last.out.args
    /\ Len(monotonicity(heap, last.out.inst)) = 2

====
